---------------------------- MODULE Spec2Model ----------------------------
(***************************************************************************)
(* A model of jupyterhpc.py: the session that submits a SLURM job running  *)
(* a notebook server, polls for its token URL and for failure, opens an    *)
(* SSH tunnel, launches the browser and waits on the tunnel.               *)
(*                                                                         *)
(* Python strings are sequences of one-character strings, so that the      *)
(* substring tests and the regular expressions of the program are computed *)
(* on the characters, as the program computes them.                        *)
(***************************************************************************)
EXTENDS Integers, Sequences, FiniteSets

----------------------------------------------------------------------------
(* Bounds of the model *)

\* polling iterations explored (the loop of main has no bound of its own)
MaxPolls == 2

----------------------------------------------------------------------------
(* Characters and text helpers *)

Digit == {"0", "1", "2", "3", "4", "5", "6", "7", "8", "9"}

Lower == {"a", "b", "c", "d", "e", "f", "g", "h", "i", "j", "k", "l", "m",
          "n", "o", "p", "q", "r", "s", "t", "u", "v", "w", "x", "y", "z"}

Upper == {"A", "B", "C", "D", "E", "F", "G", "H", "I", "J", "K", "L", "M",
          "N", "O", "P", "Q", "R", "S", "T", "U", "V", "W", "X", "Y", "Z"}

\* the class \w of the re module (ASCII part)
WordChar == Lower \cup Upper \cup Digit \cup {"_"}

\* what str.strip() removes
Whitespace == {" ", "\n", "\t", "\r"}

\* Python's None, and a variable that is not in os.environ: one-element
\* sequences that no text (a sequence of single characters) equals
None == <<"<None>">>

Absent == <<"<absent>">>

\* a local variable of main that no assignment has bound yet
Unbound == <<"<unbound>">>

\* F(v), with v evaluated once
Bind(v, F(_)) == CHOOSE r \in {F(x) : x \in {v}} : TRUE

Max(S) == Bind(S, LAMBDA T : CHOOSE x \in T : \A y \in T : y <= x)

Min(S) == Bind(S, LAMBDA T : CHOOSE x \in T : \A y \in T : x <= y)

\* s[i..j], empty when j < i
Slice(s, i, j) == IF j < i THEN <<>> ELSE SubSeq(s, i, j)

\* the literal lit occurs in s at position i
LitAt(s, i, lit) ==
    /\ i >= 1
    /\ i + Len(lit) - 1 <= Len(s)
    /\ \A k \in 1..Len(lit) : s[i + k - 1] = lit[k]

\* Python's `lit in s`
Contains(s, lit) == \E i \in 1..(Len(s) + 1) : LitAt(s, i, lit)

\* the length of the longest run of characters of class C that starts at i
RunLen(s, i, C) ==
    Max({n \in 0..(Len(s) + 1 - i) : \A k \in i..(i + n - 1) : s[k] \in C})

\* str.strip()
Strip(s) ==
    Bind({i \in 1..Len(s) : s[i] \notin Whitespace}, LAMBDA keep :
         IF keep = {} THEN <<>> ELSE SubSeq(s, Min(keep), Max(keep)))

----------------------------------------------------------------------------
(* Literals of the program *)

LitSubmitted == <<"S", "u", "b", "m", "i", "t", "t", "e", "d", " ", "b", "a", "t", "c", "h", " ",
    "j", "o", "b", " ">>

LitToken == <<"t", "o", "k", "e", "n">>

LitFailed == <<"F", "A", "I", "L", "E", "D">>

LitHttp == <<"h", "t", "t", "p", ":", "/", "/">>

LitTokenQuery == <<"/", "?", "t", "o", "k", "e", "n", "=">>

LitJupyterDir == <<".", "j", "u", "p", "y", "t", "e", "r", "h", "p", "c">>

LitErrorPrefix == <<"j", "u", "p", "y", "t", "e", "r", "h", "p", "c", "-">>

LitErrorSuffix == <<".", "e", "r", "r", "o", "r">>

LitTmpDir == <<"/", "t", "m", "p", "/">>

LitBrowserPrefix == <<"h", "t", "t", "p", ":", "/", "/", "1", "2", "7", ".", "0", ".", "0", ".",
    "1", ":", "8", "0", "8", "0", "/", "?", "t", "o", "k", "e", "n", "=">>

LitLocalPort == <<"8", "0", "8", "0">>

LitDefaultWorkdir == <<"~">>

----------------------------------------------------------------------------
(* get_var *)

\* the truth value Python gives a str-or-None
Truthy(v) == v # None /\ v # <<>>

\* get_var(var, default): the environment's value when the variable is set,
\* else the default when it is truthy, else RuntimeError
get_var(environ, var, default) ==
    IF environ[var] # Absent
    THEN [raised |-> FALSE, value |-> environ[var]]
    ELSE IF Truthy(default)
         THEN [raised |-> FALSE, value |-> default]
         ELSE [raised |-> TRUE,
               value |-> <<"Please set ", var, " environment variable">>]

----------------------------------------------------------------------------
(* The regular expressions *)

\* \d{lo,hi} followed by the literal next, at position i: the position after
\* the literal, or 0 when there is no match.  The literal begins with a
\* non-digit, so the digits matched are the whole run.
DigitsThen(s, i, lo, hi, next) ==
    IF i = 0 THEN 0
    ELSE Bind(RunLen(s, i, Digit), LAMBDA n :
              IF n >= lo /\ n <= hi /\ LitAt(s, i + n, next)
              THEN i + n + Len(next)
              ELSE 0)

\* http://\d{1,3}\.\d{1,3}\.\d{1,3}\.\d{1,3}:\d{lo,hi}/\?token=\w+ matched at
\* position i, every quantifier greedy: the groups, or ok = FALSE.
\* a: after http://, e: after the colon, f: after /?token=, w: the length
\* of the run of \w there
UrlWithPort(s, i, lo, hi) ==
    Bind(IF LitAt(s, i, LitHttp) THEN i + Len(LitHttp) ELSE 0, LAMBDA a :
    Bind(DigitsThen(s, a, 1, 3, <<".">>), LAMBDA b :
    Bind(DigitsThen(s, b, 1, 3, <<".">>), LAMBDA c :
    Bind(DigitsThen(s, c, 1, 3, <<".">>), LAMBDA d :
    Bind(DigitsThen(s, d, 1, 3, <<":">>), LAMBDA e :
    Bind(DigitsThen(s, e, lo, hi, LitTokenQuery), LAMBDA f :
    Bind(IF f = 0 THEN 0 ELSE RunLen(s, f, WordChar), LAMBDA w :
         IF f = 0 \/ w = 0
         THEN [ok |-> FALSE, ip |-> <<>>, port |-> <<>>, token |-> <<>>, last |-> 0]
         ELSE [ok    |-> TRUE,
               ip    |-> Slice(s, a, e - 2),
               port  |-> Slice(s, e, f - Len(LitTokenQuery) - 1),
               token |-> Slice(s, f, f + w - 1),
               last  |-> f + w - 1])))))))

\* the pattern both regular expressions of the program share: \d{2,4}
UrlAt(s, i) == UrlWithPort(s, i, 2, 4)

\* the search with a port of one to five digits, which re.match then refuses
SearchUrl_AnyPort(outs) ==
    Bind({i \in 1..Len(outs) : UrlWithPort(outs, i, 1, 5).ok}, LAMBDA starts :
         IF starts = {} THEN <<>>
         ELSE Bind(Min(starts), LAMBDA first :
              Bind(Max({i \in starts : \A k \in first..(i - 1) : outs[k] # "\n"}),
                   LAMBDA at : Slice(outs, at, UrlWithPort(outs, at, 1, 5).last))))

\* re.search(r".*(http://...:\d{2,4}/\?token=\w+).*", outs).group(1), or ""
\* when nothing matches.  The leading .* is greedy and does not cross a line
\* break: the match is the last URL of the first line that holds one.
SearchUrl(outs) ==
    Bind({i \in 1..Len(outs) : UrlAt(outs, i).ok}, LAMBDA starts :
         IF starts = {} THEN <<>>
         ELSE Bind(Min(starts), LAMBDA first :
              Bind(Max({i \in starts : \A k \in first..(i - 1) : outs[k] # "\n"}),
                   LAMBDA at : Slice(outs, at, UrlAt(outs, at).last))))

\* re.match(r"^http://(...):(\d{2,4})/\?token=(\w+)$", url): the three
\* groups, or matched = FALSE.  $ matches at the end of the text and before a
\* final line break.
MatchUrl(url) ==
    Bind(UrlAt(url, 1), LAMBDA m :
         IF m.ok /\ (m.last = Len(url)
                     \/ (m.last = Len(url) - 1 /\ url[Len(url)] = "\n"))
         THEN [matched |-> TRUE, ip |-> m.ip, port |-> m.port, token |-> m.token]
         ELSE [matched |-> FALSE, ip |-> <<>>, port |-> <<>>, token |-> <<>>])

\* re.match(r"Submitted batch job (\d+)", outs).group(1), or None
MatchJobId(outs) ==
    Bind(IF LitAt(outs, 1, LitSubmitted)
         THEN RunLen(outs, Len(LitSubmitted) + 1, Digit)
         ELSE 0,
         LAMBDA n : IF n = 0 THEN None
                    ELSE Slice(outs, Len(LitSubmitted) + 1, Len(LitSubmitted) + n))

\* os.path.join(".jupyterhpc", f"jupyterhpc-{job_id}.error")
ErrorFile(jid) == LitJupyterDir \o <<"/">> \o LitErrorPrefix \o jid \o LitErrorSuffix

\* f"Job {job_id} failed please have a look at: ~/{error_file}"
LitJobPrefix == <<"J", "o", "b", " ">>

LitFailedLook == <<" ", "f", "a", "i", "l", "e", "d", " ", "p", "l", "e", "a", "s", "e", " ", "h",
    "a", "v", "e", " ", "a", " ", "l", "o", "o", "k", " ", "a", "t", ":", " ", "~", "/">>

\* the report naming the directory of the logs, not the log of the job
FailureMessage_NoFile(jid) == LitJobPrefix \o jid \o LitFailedLook \o LitJupyterDir

FailureMessage(jid) == LitJobPrefix \o jid \o LitFailedLook \o ErrorFile(jid)

\* os.path.basename
Basename(path) ==
    Bind({i \in 1..Len(path) : path[i] = "/"}, LAMBDA slashes :
         IF slashes = {} THEN path ELSE Slice(path, Max(slashes) + 1, Len(path)))

----------------------------------------------------------------------------
(* What the environment can answer: the variables of os.environ, and the   *)
(* exit code and stdout of each command that run() executes                *)

EnvVars == {"CLUSTER", "PYTHON_VENV", "WORKDIR"}

ClusterName == <<"h", "p", "c", "1">>

VenvPath == <<"/", "h", "o", "m", "e", "/", "u", "/", "v", "e", "n", "v">>

WorkPath == <<"/", "w">>

Environs ==
    {e \in [EnvVars -> {Absent, <<>>, ClusterName, VenvPath, WorkPath}] :
        /\ e["CLUSTER"] \in {Absent, ClusterName}
        /\ e["PYTHON_VENV"] \in {Absent, VenvPath}
        /\ e["WORKDIR"] \in {Absent, <<>>, WorkPath}}

\* the name tempfile.NamedTemporaryFile(prefix="jupyterhpc") gives the script
TmpScript == <<"/", "t", "m", "p", "/", "j", "u", "p", "y", "t", "e", "r", "h", "p", "c", "q", "7",
    "x", "2">>

LitStaging == <<":", "/", "t", "m", "p", "/">>

SbatchOk == <<"S", "u", "b", "m", "i", "t", "t", "e", "d", " ", "b", "a", "t", "c", "h", " ", "j",
    "o", "b", " ", "4", "8", "2", "1", "\n">>

SbatchOkPadded == <<"\n", " ", "S", "u", "b", "m", "i", "t", "t", "e", "d", " ", "b", "a", "t",
    "c", "h", " ", "j", "o", "b", " ", "1", "2", "\n">>

SbatchSecondLine == <<"s", "b", "a", "t", "c", "h", ":", " ", "n", "o", "t", "e", "\n", "S", "u",
    "b", "m", "i", "t", "t", "e", "d", " ", "b", "a", "t", "c", "h", " ", "j", "o", "b", " ", "1",
    "2", "\n">>

SbatchInvalid == <<"s", "b", "a", "t", "c", "h", ":", " ", "e", "r", "r", "o", "r", ":", " ", "I",
    "n", "v", "a", "l", "i", "d", " ", "p", "a", "r", "t", "i", "t", "i", "o", "n">>

SbatchResults ==
    {[ret |-> 0, stdout |-> SbatchOk], [ret |-> 0, stdout |-> SbatchOkPadded],
     [ret |-> 0, stdout |-> SbatchSecondLine], [ret |-> 0, stdout |-> SbatchInvalid],
     [ret |-> 0, stdout |-> <<>>], [ret |-> 1, stdout |-> SbatchInvalid],
     [ret |-> 1, stdout |-> <<>>], [ret |-> 1, stdout |-> SbatchOk]}

LogStarting == <<"s", "t", "a", "r", "t", "i", "n", "g", "\n">>

LogTokenOnly == <<"u", "s", "e", " ", "t", "h", "e", " ", "t", "o", "k", "e", "n", " ", "t", "o",
    " ", "l", "o", "g", " ", "i", "n", "\n">>

LogUrl == <<"x", " ", "h", "t", "t", "p", ":", "/", "/", "1", "0", ".", "0", ".", "0", ".", "5",
    ":", "9", "7", "0", "0", "/", "?", "t", "o", "k", "e", "n", "=", "a", "b", "c", "1", "2", "3",
    " ", "y", "\n">>

LogUrlLongPort == <<"h", "t", "t", "p", ":", "/", "/", "1", "0", ".", "0", ".", "0", ".", "5", ":",
    "1", "2", "3", "4", "5", "/", "?", "t", "o", "k", "e", "n", "=", "a", "b", "c", "\n">>

LogTwoUrls == <<"h", "t", "t", "p", ":", "/", "/", "1", "0", ".", "0", ".", "0", ".", "6", ":",
    "8", "0", "/", "?", "t", "o", "k", "e", "n", "=", "Z", "_", "9", "\n", " ", "o", "r", " ", "h",
    "t", "t", "p", ":", "/", "/", "1", "2", "7", ".", "0", ".", "0", ".", "1", ":", "8", "0", "/",
    "?", "t", "o", "k", "e", "n", "=", "Z", "_", "9", "\n">>

\* cat of the error file: it fails while the file does not exist; a read that
\* breaks off (ssh dropping) exits non-zero with the text read so far
CatResults ==
    {[ret |-> 1, stdout |-> <<>>], [ret |-> 0, stdout |-> <<>>],
     [ret |-> 0, stdout |-> LogStarting], [ret |-> 0, stdout |-> LogTokenOnly],
     [ret |-> 0, stdout |-> LogUrl], [ret |-> 0, stdout |-> LogUrlLongPort],
     [ret |-> 0, stdout |-> LogTwoUrls], [ret |-> 1, stdout |-> LogUrl]}

AcctRunning == <<"4", "8", "2", "1", " ", "R", "U", "N", "N", "I", "N", "G", " ", "0", ":", "0",
    "\n">>

AcctFailed == <<"4", "8", "2", "1", " ", "F", "A", "I", "L", "E", "D", " ", "1", ":", "0", "\n">>

SacctResults ==
    {[ret |-> 0, stdout |-> <<>>], [ret |-> 1, stdout |-> <<>>],
     [ret |-> 0, stdout |-> AcctRunning], [ret |-> 0, stdout |-> AcctFailed],
     [ret |-> 1, stdout |-> AcctFailed]}

NodeName == <<"n", "o", "d", "e", "0", "5", "\n">>

SqueueResults ==
    {[ret |-> 0, stdout |-> NodeName], [ret |-> 0, stdout |-> <<>>],
     [ret |-> 1, stdout |-> <<>>]}

ScancelError == <<"s", "c", "a", "n", "c", "e", "l", ":", " ", "e", "r", "r", "o", "r">>

ScancelResults == {[ret |-> 0, stdout |-> <<>>], [ret |-> 1, stdout |-> ScancelError]}

----------------------------------------------------------------------------
(* The functions of the program, on the result of their command *)

\* run: (returncode, stdout.decode().strip()); stderr is only printed.  Its
\* own get_var('CLUSTER') cannot raise: os.environ does not change, and
\* send_job_script reads CLUSTER before the first command runs.
run(r) == Bind(Strip(r.stdout), LAMBDA outs : [ret |-> r.ret, outs |-> outs])

\* launch_job without the test of the exit code
launch_job_IgnoresRet(res) ==
    Bind(MatchJobId(res.outs), LAMBDA job_match :
         IF job_match # None
         THEN [raised |-> FALSE, value |-> job_match]
         ELSE [raised |-> TRUE, value |-> res.outs])

\* launch_job, after its command: the job id, or RuntimeError(outs)
launch_job(res) ==
    Bind(MatchJobId(res.outs), LAMBDA job_match :
         IF res.ret = 0 /\ job_match # None
         THEN [raised |-> FALSE, value |-> job_match]
         ELSE [raised |-> TRUE, value |-> res.outs])

\* check_jobfailure that takes a query that failed for a job that failed
check_jobfailure_OrQueryFailed(res) == res.ret # 0 \/ Contains(res.outs, LitFailed)

\* check_jobfailure with == in the place of `in`
check_jobfailure_WholeOutput(res) == res.outs = LitFailed

\* check_jobfailure, after its command
check_jobfailure(res) == Contains(res.outs, LitFailed)

\* get_jupyter_url, after its command: the URL or "", and whether re.search
\* was called
get_jupyter_url(res) ==
    IF ~Contains(res.outs, LitToken)
    THEN [url |-> <<>>, searched |-> FALSE]
    ELSE [url |-> SearchUrl(res.outs), searched |-> TRUE]

\* get_node, after its command: the node name, or RuntimeError(outs)
get_node(res) ==
    IF res.ret = 0
    THEN [raised |-> FALSE, value |-> Strip(res.outs)]
    ELSE [raised |-> TRUE, value |-> res.outs]

\* delete_job, after its command: returns, or RuntimeError(outs)
delete_job(res) ==
    IF res.ret = 0
    THEN [raised |-> FALSE, value |-> None]
    ELSE [raised |-> TRUE, value |-> res.outs]

\* the forwarding with its two ports exchanged
TunnelForward_SwapsPorts(node, remote) == remote \o <<":">> \o node \o <<":">> \o LitLocalPort

\* line 204: f"8080:{ip}:{port}", the local port, the node, the port there
TunnelForward(node, remote) == LitLocalPort \o <<":">> \o node \o <<":">> \o remote

\* the failure branch without its exit(1): the loop goes on
OnJobFailure_NoExit == [pc |-> "while", exc |-> "none", status |-> 0]

\* lines 186-189 of main: after the report, exit(1)
OnJobFailure == [pc |-> "done", exc |-> "SystemExit", status |-> 1]

----------------------------------------------------------------------------
(* The state *)

VARIABLES
    environ,         \* os.environ, restricted to the three variables read
    pc,              \* the statement of main that runs next; "done": ended
    script_path,     \* main's locals; Unbound until assigned
    job_id,
    url,
    count,
    ip,
    port,
    token,
    sbatch_res,      \* (ret, outs) of sbatch, of the last cat, the last sacct,
    cat_res,
    sacct_res,       \*   and of squeue
    squeue_res,
    searched,        \* the last get_jupyter_url called re.search
    calls,           \* the commands executed so far, oldest first
    failure_report,  \* the "Job ... failed" line printed, or None
    exc,             \* how the program ended: "none" (main returned), or the
    exc_arg,         \*   exception that ended it, with its argument
    status,          \* the exit status
    ended_at,        \* the statement that ended the program
    interrupts,      \* the statements at which a KeyboardInterrupt arrived
    tunnel,          \* the ssh -N -L child: "none", "running", "exited"
    gv_args,         \* a single call of get_var: its arguments and
    gv_result,       \*   what it returned or raised
    log_parts        \* the text given to a single readiness check, in parts

vars == <<environ, pc, script_path, job_id, url, count, ip, port, token, sbatch_res,
          cat_res, sacct_res, squeue_res, searched, calls, failure_report, exc, exc_arg, status,
          ended_at, interrupts, tunnel, gv_args, gv_result, log_parts>>

locals == <<script_path, job_id, url, count, ip, port, token>>

ending == <<exc, exc_arg, status, ended_at>>

single == <<gv_args, gv_result, log_parts>>

NoResult == [ret |-> 0, outs |-> <<>>]

NoParts == [kind |-> "none", pre |-> <<>>, ip |-> <<>>, port |-> <<>>, token |-> <<>>,
            post |-> <<>>]

Call(cmd, args) == [cmd |-> cmd, args |-> args]

\* the state main starts in, whatever the environment
Start ==
    /\ script_path = Unbound
    /\ job_id = Unbound
    /\ url = Unbound
    /\ count = 0
    /\ ip = Unbound
    /\ port = Unbound
    /\ token = Unbound
    /\ sbatch_res = NoResult
    /\ cat_res = NoResult
    /\ sacct_res = NoResult
    /\ squeue_res = NoResult
    /\ searched = FALSE
    /\ calls = <<>>
    /\ failure_report = None
    /\ exc = "none"
    /\ exc_arg = None
    /\ status = 0
    /\ ended_at = "none"
    /\ interrupts = {}
    /\ tunnel = "none"

Init ==
    /\ environ \in Environs
    /\ pc = "create_job_script"
    /\ Start
    /\ gv_args = [var |-> "CLUSTER", default |-> None]
    /\ gv_result = [raised |-> FALSE, value |-> None]
    /\ log_parts = NoParts

----------------------------------------------------------------------------
(* The statements of main *)

\* an exception nothing catches, or exit(): the program ends
End(kind, arg, st) ==
    /\ pc' = "done"
    /\ exc' = kind
    /\ exc_arg' = arg
    /\ status' = st
    /\ ended_at' = pc

\* line 168: create_job_script reads PYTHON_VENV and WORKDIR (default "~")
CreateJobScript ==
    /\ pc = "create_job_script"
    /\ LET venv    == get_var(environ, "PYTHON_VENV", None)
           workdir == get_var(environ, "WORKDIR", LitDefaultWorkdir)
       IN  IF venv.raised
           THEN /\ End("RuntimeError", venv.value, 1)
                /\ UNCHANGED locals
           ELSE IF workdir.raised
           THEN /\ End("RuntimeError", workdir.value, 1)
                /\ UNCHANGED locals
           ELSE /\ script_path' = TmpScript
                /\ pc' = "send_job_script"
                /\ UNCHANGED <<job_id, url, count, ip, port, token, ending>>
    /\ UNCHANGED <<environ, sbatch_res, cat_res, sacct_res, squeue_res, searched, calls,
                   failure_report, interrupts, tunnel, single>>

\* line 169: send_job_script reads CLUSTER and runs scp; the exit code is
\* not looked at
SendJobScript ==
    /\ pc = "send_job_script"
    /\ LET cluster == get_var(environ, "CLUSTER", None)
       IN  IF cluster.raised
           THEN /\ End("RuntimeError", cluster.value, 1)
                /\ UNCHANGED calls
           ELSE /\ calls' = Append(calls,
                       Call("scp", <<script_path, cluster.value \o LitStaging>>))
                /\ pc' = "launch_job"
                /\ UNCHANGED ending
    /\ UNCHANGED <<environ, locals, sbatch_res, cat_res, sacct_res, squeue_res, searched,
                   failure_report, interrupts, tunnel, single>>

\* lines 170-172: launch_job runs sbatch and parses the job id
LaunchJob ==
    /\ pc = "launch_job"
    /\ \E r \in SbatchResults : \E res \in {run(r)} : \E got \in {launch_job(res)} :
             /\ sbatch_res' = res
             /\ calls' = Append(calls,
                     Call("sbatch", <<LitTmpDir \o Basename(script_path)>>))
             /\ IF got.raised
                THEN /\ End("RuntimeError", got.value, 1)
                     /\ UNCHANGED job_id
                ELSE /\ job_id' = got.value
                     /\ pc' = "while"
                     /\ UNCHANGED ending
    /\ url' = IF pc' = "while" THEN None ELSE url
    /\ UNCHANGED <<environ, script_path, count, ip, port, token, cat_res, sacct_res, squeue_res,
                   searched, failure_report, interrupts, tunnel, single>>

\* lines 176-182: the loop test, then the sleep and the counter
While ==
    /\ pc = "while"
    /\ IF ~Truthy(url)
       THEN /\ count < MaxPolls
            /\ count' = count + 1
            /\ pc' = "get_jupyter_url"
       ELSE /\ pc' = "match_url"
            /\ UNCHANGED count
    /\ UNCHANGED <<environ, script_path, job_id, url, ip, port, token, sbatch_res, cat_res,
                   sacct_res, squeue_res, searched, calls, failure_report, ending, interrupts,
                   tunnel, single>>

\* the readiness check that goes back to the loop test once it has a URL
GetJupyterUrl_SkipsFailureCheck ==
    /\ pc = "get_jupyter_url"
    /\ \E r \in CatResults : \E res \in {run(r)} :
         \E got \in {get_jupyter_url(res)} :
             /\ cat_res' = res
             /\ url' = got.url
             /\ searched' = got.searched
    /\ calls' = Append(calls, Call("cat", <<ErrorFile(job_id)>>))
    /\ pc' = IF Truthy(url') THEN "while" ELSE "check_jobfailure"
    /\ UNCHANGED <<environ, script_path, job_id, count, ip, port, token, sbatch_res, sacct_res,
                   squeue_res, failure_report, ending, interrupts, tunnel, single>>

\* line 184: the readiness check, but for the record of its command
GetJupyterUrlStep ==
    /\ pc = "get_jupyter_url"
    /\ \E r \in CatResults : \E res \in {run(r)} :
         \E got \in {get_jupyter_url(res)} :
             /\ cat_res' = res
             /\ url' = got.url
             /\ searched' = got.searched
    /\ pc' = "check_jobfailure"
    /\ UNCHANGED <<environ, script_path, job_id, count, ip, port, token, sbatch_res, sacct_res,
                   squeue_res, failure_report, ending, interrupts, tunnel, single>>

\* line 184: the readiness check
GetJupyterUrl ==
    /\ GetJupyterUrlStep
    /\ calls' = Append(calls, Call("cat", <<ErrorFile(job_id)>>))

\* lines 185-189: the failure check; on failure, the report and exit(1); but
\* for the record of its command
CheckJobfailureStep ==
    /\ pc = "check_jobfailure"
    /\ \E r \in SacctResults : \E res \in {run(r)} :
         /\ sacct_res' = res
         /\ IF check_jobfailure(res)
            THEN /\ failure_report' = FailureMessage(job_id)
                 /\ pc' = OnJobFailure.pc
                 /\ exc' = OnJobFailure.exc
                 /\ status' = OnJobFailure.status
                 /\ ended_at' = IF OnJobFailure.pc = "done" THEN pc ELSE ended_at
            ELSE /\ pc' = "while"
                 /\ UNCHANGED <<failure_report, exc, status, ended_at>>
    /\ UNCHANGED <<environ, locals, sbatch_res, cat_res, squeue_res, searched, exc_arg,
                   interrupts, tunnel, single>>

\* lines 185-189: the failure check
CheckJobfailure ==
    /\ CheckJobfailureStep
    /\ calls' = Append(calls, Call("sacct", <<job_id>>))

\* lines 191-197: the URL is matched again, for its three parts
AssignParts ==
    \E data \in {MatchUrl(url)} :
        IF data.matched
        THEN /\ ip' = data.ip
             /\ port' = data.port
             /\ token' = data.token
        ELSE UNCHANGED <<ip, port, token>>

\* the tunnel spawned right after the match, line 199 left out
MatchUrlParts_SkipsNode ==
    /\ pc = "match_url"
    /\ AssignParts
    /\ pc' = "open_tunnel"
    /\ UNCHANGED <<environ, script_path, job_id, url, count, sbatch_res, cat_res, sacct_res,
                   squeue_res, searched, calls, failure_report, ending, interrupts, tunnel,
                   single>>

MatchUrlParts ==
    /\ pc = "match_url"
    /\ AssignParts
    /\ pc' = "get_node"
    /\ UNCHANGED <<environ, script_path, job_id, url, count, sbatch_res, cat_res, sacct_res,
                   squeue_res, searched, calls, failure_report, ending, interrupts, tunnel,
                   single>>

\* line 199: the node of the job replaces the address of the URL
GetNode ==
    /\ pc = "get_node"
    /\ \E r \in SqueueResults : \E res \in {run(r)} : \E got \in {get_node(res)} :
         /\ squeue_res' = res
         /\ IF got.raised
            THEN /\ End("RuntimeError", got.value, 1)
                 /\ UNCHANGED ip
            ELSE /\ ip' = got.value
                 /\ pc' = "open_tunnel"
                 /\ UNCHANGED ending
    /\ calls' = Append(calls, Call("squeue", <<job_id>>))
    /\ UNCHANGED <<environ, script_path, job_id, url, count, port, token, sbatch_res, cat_res,
                   sacct_res, searched, failure_report, interrupts, tunnel, single>>

\* lines 201-206: the two prints read port and token; then the tunnel is
\* spawned
OpenTunnel ==
    /\ pc = "open_tunnel"
    /\ LET cluster == get_var(environ, "CLUSTER", None)
       IN  IF port = Unbound \/ token = Unbound
           THEN /\ End("UnboundLocalError", None, 1)
                /\ UNCHANGED <<calls, tunnel>>
           ELSE IF cluster.raised
           THEN /\ End("RuntimeError", cluster.value, 1)
                /\ UNCHANGED <<calls, tunnel>>
           ELSE /\ calls' = Append(calls,
                       Call("ssh -N -L", <<cluster.value, TunnelForward(ip, port)>>))
                /\ tunnel' = "running"
                /\ pc' = "open_browser"
                /\ UNCHANGED ending
    /\ UNCHANGED <<environ, locals, sbatch_res, cat_res, sacct_res, squeue_res, searched,
                   failure_report, interrupts, single>>

\* line 208
OpenBrowser ==
    /\ pc = "open_browser"
    /\ calls' = Append(calls, Call("webbrowser.open", <<LitBrowserPrefix \o token>>))
    /\ pc' = "wait"
    /\ UNCHANGED <<environ, locals, sbatch_res, cat_res, sacct_res, squeue_res, searched,
                   failure_report, ending, interrupts, tunnel, single>>

\* the tunnel process ends by itself (ssh fails, is killed, the job ends)
TunnelExits ==
    /\ pc \in {"open_browser", "wait", "delete_job"}
    /\ tunnel = "running"
    /\ tunnel' = "exited"
    /\ UNCHANGED <<environ, pc, locals, sbatch_res, cat_res, sacct_res, squeue_res, searched,
                   calls, failure_report, ending, interrupts, single>>

\* the wait followed by delete_job also when the tunnel ended by itself
Wait_ThenCancels ==
    /\ pc = "wait"
    /\ tunnel = "exited"
    /\ pc' = "delete_job"
    /\ UNCHANGED <<environ, locals, sbatch_res, cat_res, sacct_res, squeue_res, searched, calls,
                   failure_report, ending, interrupts, tunnel, single>>

\* lines 210-211: ssh_t.wait() returns once the tunnel has ended; main returns
Wait ==
    /\ pc = "wait"
    /\ tunnel = "exited"
    /\ End("none", None, 0)
    /\ UNCHANGED <<environ, locals, sbatch_res, cat_res, sacct_res, squeue_res, searched, calls,
                   failure_report, interrupts, tunnel, single>>

\* a SIGINT reaches the program alone (kill -INT), or with the tunnel too
\* (Ctrl-C in the terminal signals the whole foreground process group)
SignalledTunnel == IF tunnel = "running" THEN {"running", "exited"} ELSE {tunnel}

\* line 213: the only handler; KeyboardInterrupt during ssh_t.wait()
InterruptWait ==
    /\ pc = "wait"
    /\ interrupts' = interrupts \cup {pc}
    /\ tunnel' \in SignalledTunnel
    /\ pc' = "delete_job"
    /\ UNCHANGED <<environ, locals, sbatch_res, cat_res, sacct_res, squeue_res, searched, calls,
                   failure_report, ending, single>>

\* KeyboardInterrupt anywhere else: nothing catches it
InterruptElsewhere ==
    /\ pc \notin {"wait", "done"}
    /\ interrupts' = interrupts \cup {pc}
    /\ tunnel' \in SignalledTunnel
    /\ End("KeyboardInterrupt", None, 130)
    /\ UNCHANGED <<environ, locals, sbatch_res, cat_res, sacct_res, squeue_res, searched, calls,
                   failure_report, single>>

\* the handler returning into the polling loop once scancel has run
DeleteJob_Resumes ==
    /\ pc = "delete_job"
    /\ \E r \in ScancelResults : \E got \in {delete_job(run(r))} :
             IF got.raised
             THEN End("RuntimeError", got.value, 1)
             ELSE pc' = "get_jupyter_url" /\ UNCHANGED ending
    /\ calls' = Append(calls, Call("scancel", <<job_id>>))
    /\ UNCHANGED <<environ, locals, sbatch_res, cat_res, sacct_res, squeue_res, searched,
                   failure_report, interrupts, tunnel, single>>

\* line 215: delete_job runs scancel
DeleteJob ==
    /\ pc = "delete_job"
    /\ \E r \in ScancelResults : \E got \in {delete_job(run(r))} :
             IF got.raised
             THEN End("RuntimeError", got.value, 1)
             ELSE End("none", None, 0)
    /\ calls' = Append(calls, Call("scancel", <<job_id>>))
    /\ UNCHANGED <<environ, locals, sbatch_res, cat_res, sacct_res, squeue_res, searched,
                   failure_report, interrupts, tunnel, single>>

Next ==
    \/ CreateJobScript
    \/ SendJobScript
    \/ LaunchJob
    \/ While
    \/ GetJupyterUrl
    \/ CheckJobfailure
    \/ MatchUrlParts
    \/ GetNode
    \/ OpenTunnel
    \/ OpenBrowser
    \/ TunnelExits
    \/ Wait
    \/ InterruptWait
    \/ InterruptElsewhere
    \/ DeleteJob

Spec == Init /\ [][Next]_vars

----------------------------------------------------------------------------
(* The job of section 3 of the specification, read off the program         *)

PollPcs == {"while", "get_jupyter_url", "check_jobfailure"}

BeforeSubmitPcs == {"create_job_script", "send_job_script", "launch_job"}

\* Unsubmitted until launch_job returns an id; Submitted, then Polling in the
\* loop; Failed once the failure report is printed; Ready once the loop has
\* ended with a URL; Cancelled when an interrupt ends the loop.  Ready stays
\* Ready: the specification cancels only a job that is not terminal.
JobState ==
    IF failure_report # None THEN "Failed"
    ELSE Bind(IF pc = "done" THEN ended_at ELSE pc, LAMBDA at :
         IF at \in BeforeSubmitPcs THEN "Unsubmitted"
         ELSE IF at \in PollPcs
              THEN IF pc = "done" THEN "Cancelled"
                   ELSE IF count = 0 THEN "Submitted" ELSE "Polling"
              ELSE "Ready")

Terminal(st) == st \in {"Ready", "Failed", "Cancelled"}

\* how many of the commands executed so far are among cmds
Count(cmds) == Cardinality({i \in 1..Len(calls) : calls[i].cmd \in cmds})

----------------------------------------------------------------------------
(* A single call of get_var, on any variable, environment and default *)

GvValues == {Absent, <<>>, ClusterName}

GvDefaults == {None, <<>>, LitDefaultWorkdir, WorkPath}

InitGetVar ==
    /\ environ \in [EnvVars -> GvValues]
    /\ gv_args \in [var : EnvVars, default : GvDefaults]
    /\ gv_result = [raised |-> FALSE, value |-> None]
    /\ pc = "get_var"
    /\ log_parts = NoParts
    /\ Start

CallGetVar ==
    /\ pc = "get_var"
    /\ gv_result' = get_var(environ, gv_args.var, gv_args.default)
    /\ pc' = "returned"
    /\ UNCHANGED <<environ, locals, sbatch_res, cat_res, sacct_res, squeue_res, searched, calls,
                   failure_report, ending, interrupts, tunnel, gv_args, log_parts>>

SpecGetVar == InitGetVar /\ [][CallGetVar]_vars

----------------------------------------------------------------------------
(* A single readiness check, and the match of lines 191-197 when it gives  *)
(* a URL, on error logs built from a prefix, an address, a port, a token   *)
(* and a suffix                                                            *)

IpA == <<"1", "0", ".", "0", ".", "0", ".", "5">>

IpB == <<"1", "9", "2", ".", "1", "6", "8", ".", "1", "0", "0", ".", "1", "7">>

TokA == <<"a", "b", "c", "1", "2", "3">>

TokB == <<"9", "F">>

PreLine == <<"s", "t", "a", "r", "t", "i", "n", "g", "\n">>

PreWord == <<" ", "o", "r", " ">>

PostWord == <<" ", "y", "\n">>

PortShort == <<"8", "0">>

PortUsual == <<"9", "7", "0", "0">>

PortFive == <<"1", "2", "3", "4", "5">>

LogPorts == {PortShort, PortUsual, PortFive}

\* "url": the log holds pre, the URL and post; "token": the word token and
\* no URL; "none": neither
LogParts ==
    [kind : {"url"}, pre : {<<>>, PreLine, PreWord}, ip : {IpA, IpB}, port : LogPorts,
     token : {TokA, TokB}, post : {<<>>, PostWord, <<"\n">>}]
    \cup [kind : {"token", "none"}, pre : {<<>>, PreLine, PreWord}, ip : {<<>>},
          port : {<<>>}, token : {<<>>}, post : {<<>>, PostWord, LogStarting}]

LogText(parts) ==
    IF parts.kind = "url"
    THEN parts.pre \o LitHttp \o parts.ip \o <<":">> \o parts.port \o LitTokenQuery
         \o parts.token \o parts.post
    ELSE IF parts.kind = "token"
    THEN parts.pre \o LitToken \o parts.post
    ELSE parts.pre \o parts.post

InitParse ==
    /\ environ \in {e \in Environs : e["CLUSTER"] # Absent /\ e["PYTHON_VENV"] # Absent
                                      /\ e["WORKDIR"] = Absent}
    /\ log_parts \in LogParts
    /\ pc = "parse_log"
    /\ gv_args = [var |-> "CLUSTER", default |-> None]
    /\ gv_result = [raised |-> FALSE, value |-> None]
    /\ Start

\* lines 144-164 on the text, then the loop test of line 176
ParseLog ==
    /\ pc = "parse_log"
    /\ \E res \in {run([ret |-> 0, stdout |-> LogText(log_parts)])} :
       \E got \in {get_jupyter_url(res)} :
           /\ cat_res' = res
           /\ url' = got.url
           /\ searched' = got.searched
           /\ pc' = IF Truthy(got.url) THEN "parse_url" ELSE "not_ready"
    /\ UNCHANGED <<environ, script_path, job_id, count, ip, port, token, sbatch_res, sacct_res,
                   squeue_res, calls, failure_report, ending, interrupts, tunnel, single>>

\* lines 191-197
ParseUrl ==
    /\ pc = "parse_url"
    /\ AssignParts
    /\ pc' = "parsed"
    /\ UNCHANGED <<environ, script_path, job_id, url, count, sbatch_res, cat_res,
                   sacct_res, squeue_res, searched, calls, failure_report, ending, interrupts,
                   tunnel, single>>

NextParse == ParseLog \/ ParseUrl

SpecParse == InitParse /\ [][NextParse]_vars

----------------------------------------------------------------------------
(* The polling loop alone, run for ever: the commands of the loop are not   *)
(* added to the trace, and the counter, which the program only prints,     *)
(* stays at MaxPolls once it is there                                      *)

\* the states in which main enters the loop, lines 174-176
InitLive ==
    /\ environ \in {e \in Environs : /\ ~get_var(e, "CLUSTER", None).raised
                                     /\ ~get_var(e, "PYTHON_VENV", None).raised}
    /\ pc = "while"
    /\ script_path = TmpScript
    /\ \E r \in SbatchResults : \E res \in {run(r)} : \E got \in {launch_job(res)} :
             /\ ~got.raised
             /\ sbatch_res = res
             /\ job_id = got.value
    /\ url = None
    /\ count = 0
    /\ ip = Unbound
    /\ port = Unbound
    /\ token = Unbound
    /\ cat_res = NoResult
    /\ sacct_res = NoResult
    /\ squeue_res = NoResult
    /\ searched = FALSE
    /\ calls = <<Call("scp", <<script_path, get_var(environ, "CLUSTER", None).value
                                                \o LitStaging>>),
                 Call("sbatch", <<LitTmpDir \o Basename(script_path)>>)>>
    /\ failure_report = None
    /\ exc = "none"
    /\ exc_arg = None
    /\ status = 0
    /\ ended_at = "none"
    /\ interrupts = {}
    /\ tunnel = "none"
    /\ gv_args = [var |-> "CLUSTER", default |-> None]
    /\ gv_result = [raised |-> FALSE, value |-> None]
    /\ log_parts = NoParts

\* lines 176-182: the loop test, then the sleep and the counter
WhileLive ==
    /\ pc = "while"
    /\ IF ~Truthy(url)
       THEN /\ count' = Min({count + 1, MaxPolls})
            /\ pc' = "get_jupyter_url"
       ELSE /\ pc' = "match_url"
            /\ UNCHANGED count
    /\ UNCHANGED <<environ, script_path, job_id, url, ip, port, token, sbatch_res, cat_res,
                   sacct_res, squeue_res, searched, calls, failure_report, ending, interrupts,
                   tunnel, single>>

GetJupyterUrlLive == GetJupyterUrlStep /\ UNCHANGED calls

CheckJobfailureLive == CheckJobfailureStep /\ UNCHANGED calls

NextLive ==
    \/ WhileLive
    \/ GetJupyterUrlLive
    \/ CheckJobfailureLive
    \/ InterruptElsewhere

\* sleep(0.5) returns, and so does every command run() waits for: a step of
\* the loop that can be taken is taken.  An interrupt may never come.
FairLoop ==
    /\ WF_vars(WhileLive)
    /\ WF_vars(GetJupyterUrlLive)
    /\ WF_vars(CheckJobfailureLive)

SpecLive == InitLive /\ [][NextLive]_vars /\ FairLoop

----------------------------------------------------------------------------
(* Properties *)

AfterSubmitPcs ==
    PollPcs \cup {"match_url", "get_node", "open_tunnel", "open_browser", "wait",
                  "delete_job"}

\* the commands that follow Ready
AfterReady == {"squeue", "ssh -N -L", "webbrowser.open"}

\* the accounting query of the last failure check printed FAILED
FailedSeen == Count({"sacct"}) > 0 /\ Contains(sacct_res.outs, LitFailed)

\* the arguments of the last command cmd executed
LastArgs(cmd) == calls[Max({i \in 1..Len(calls) : calls[i].cmd = cmd})].args

(* C1: whenever the accounting output of a failure check contains FAILED,  *)
(* the session has ended there with exit(1) and the job is Failed, not     *)
(* Ready, whatever the readiness check of that iteration returned; no node *)
(* query, tunnel or browser launch was made.                               *)
C1_FailureWins ==
    FailedSeen =>
        /\ pc = "done"
        /\ ended_at = "check_jobfailure"
        /\ exc = "SystemExit"
        /\ status = 1
        /\ JobState = "Failed"
        /\ Count(AfterReady) = 0
        /\ tunnel = "none"

\* FAILED is reported in an iteration whose readiness check gave a URL that
\* line 191 matches
C1_Witness == FailedSeen /\ Truthy(url) /\ MatchUrl(url).matched /\ pc = "done"

(* C2: when the program has ended and an interrupt arrived after the job   *)
(* was submitted, scancel was issued for the job id and the tunnel is not  *)
(* left running.                                                           *)
C2_CancelCleansUp ==
    (pc = "done" /\ interrupts \cap AfterSubmitPcs # {}) =>
        /\ \E i \in 1..Len(calls) : calls[i] = Call("scancel", <<job_id>>)
        /\ tunnel # "running"

(* C3: scancel is never issued more than once, and when the program has    *)
(* ended after an interrupt that arrived during polling, it was issued     *)
(* exactly once and no tunnel is left running.                             *)
C3_ExactlyOneCancel ==
    /\ Count({"scancel"}) <= 1
    /\ (pc = "done" /\ interrupts \cap PollPcs # {}) =>
           /\ Count({"scancel"}) = 1
           /\ tunnel # "running"

(* C4: once the job is Ready, Failed or Cancelled, it stays in that state  *)
(* and no further cat of the error log or sacct is executed.               *)
C4_OneTerminalState ==
    [][Terminal(JobState) =>
          /\ JobState' = JobState
          /\ Count({"cat", "sacct"})' = Count({"cat", "sacct"})]_vars

\* a terminal job whose session still runs
C4_Witness == Terminal(JobState) /\ pc = "wait" /\ Count({"cat", "sacct"}) = 2 * MaxPolls

\* a URL of the grammar http://<ipv4>:<port>/?token=<alphanumeric>, with a
\* port of any length from 1 to 5 digits, occurs in the text
HasTokenUrl(text) ==
    \E i \in 1..Len(text) :
        \E m \in {UrlWithPort(text, i, 1, 5)} : m.ok /\ m.token[1] \notin {"_"}

(* C5: at the loop test after an iteration whose failure check passed: if  *)
(* the log read in that iteration holds a token URL, the loop ends and the *)
(* job is Ready; if the log could not be read, the loop goes on to the     *)
(* next readiness check.                                                   *)
C5_ReadyOnFirstUrl ==
    [][(pc = "while" /\ count > 0 /\ pc' \notin {"while", "done"}) =>
          /\ HasTokenUrl(cat_res.outs) => JobState' = "Ready"
          /\ (cat_res.ret # 0 /\ cat_res.outs = <<>>) => pc' = "get_jupyter_url"]_vars

\* "Submitted batch job <integer>" occurs in the text
HasSubmittedLine(outs) ==
    \E i \in 1..Len(outs) :
        /\ LitAt(outs, i, LitSubmitted)
        /\ i + Len(LitSubmitted) <= Len(outs)
        /\ outs[i + Len(LitSubmitted)] \in Digit

(* C6: when sbatch exited non-zero or its stdout holds no "Submitted batch *)
(* job <integer>", the program has ended in launch_job with an error whose *)
(* argument is that stdout, no job id was assigned, and no cat, sacct,     *)
(* scancel, squeue or tunnel command was executed.                         *)
C6_SubmissionFails ==
    (Count({"sbatch"}) > 0
     /\ (sbatch_res.ret # 0 \/ ~HasSubmittedLine(sbatch_res.outs))) =>
        /\ pc = "done"
        /\ ended_at = "launch_job"
        /\ exc = "RuntimeError"
        /\ status # 0
        /\ exc_arg = sbatch_res.outs
        /\ job_id = Unbound
        /\ Count({"cat", "sacct", "scancel", "squeue", "ssh -N -L"}) = 0

\* sbatch exits 0 and prints "sbatch: error: Invalid partition"
C6_Witness ==
    /\ Count({"sbatch"}) > 0
    /\ sbatch_res = [ret |-> 0, outs |-> SbatchInvalid]
    /\ pc = "done"

(* C7: when the program has ended in the handler of an interrupt of the    *)
(* wait, scancel was attempted, the tunnel is not left running, and the    *)
(* program ended normally (no exception, status 0) whether or not scancel  *)
(* succeeded.                                                              *)
C7_BestEffortCleanup ==
    (pc = "done" /\ interrupts = {"wait"}) =>
        /\ Count({"scancel"}) = 1
        /\ tunnel # "running"
        /\ exc = "none"
        /\ status = 0

(* C8: whenever the accounting output of a failure check contains FAILED,  *)
(* the program has ended with status 1 after printing the report that      *)
(* names the job id and the path of the error log it polled, and no node   *)
(* query, tunnel or browser launch was made.                               *)
C8_FailureReported ==
    FailedSeen =>
        /\ pc = "done"
        /\ status = 1
        /\ failure_report =
               LitJobPrefix \o job_id \o LitFailedLook \o LastArgs("cat")[1]
        /\ Contains(LastArgs("cat")[1], job_id)
        /\ Count(AfterReady) = 0
        /\ tunnel = "none"

\* the failure is detected in the second iteration
C8_Witness == FailedSeen /\ exc = "SystemExit" /\ count = 2 /\ failure_report # None

(* C9: a call of get_var raises exactly when the variable is not in the    *)
(* environment and no default was given; with a default, empty or not, an  *)
(* absent variable gives the default; a variable that is set gives its     *)
(* value.                                                                  *)
C9_GetVar ==
    pc = "returned" =>
        /\ gv_result.raised <=>
               (environ[gv_args.var] = Absent /\ gv_args.default = None)
        /\ (environ[gv_args.var] = Absent /\ gv_args.default # None) =>
               gv_result.value = gv_args.default
        /\ environ[gv_args.var] # Absent =>
               gv_result.value = environ[gv_args.var]

(* C10: for a log that holds a URL http://<ipv4>:<port>/?token=<token>,    *)
(* whatever the number of digits of the port, the readiness check and the  *)
(* match give the address, the port and the token of that URL; for a log   *)
(* without the word token the readiness check gives "" and does not call   *)
(* re.search.                                                              *)
C10_ParseExact ==
    pc \in {"parsed", "not_ready"} =>
        /\ log_parts.kind = "url" =>
               /\ pc = "parsed"
               /\ ip = log_parts.ip
               /\ port = log_parts.port
               /\ token = log_parts.token
        /\ ~Contains(LogText(log_parts), LitToken) =>
               /\ pc = "not_ready"
               /\ ~searched

\* the integers N of the lines of the text that start "Submitted batch job N"
SubmittedIds(outs) ==
    {Slice(outs, i + Len(LitSubmitted),
           i + Len(LitSubmitted) + RunLen(outs, i + Len(LitSubmitted), Digit) - 1) :
        i \in {k \in 1..Len(outs) :
                 /\ k = 1 \/ outs[k - 1] = "\n"
                 /\ LitAt(outs, k, LitSubmitted)
                 /\ RunLen(outs, k + Len(LitSubmitted), Digit) > 0}}

(* C11: once sbatch has run, if it exited zero and a line of its stdout    *)
(* reads "Submitted batch job N", first line or not, the job id is the     *)
(* digit string N of such a line; if no line of its stdout reads so, the   *)
(* program has ended in launch_job with a RuntimeError and no job id.      *)
C11_JobIdParsed ==
    Count({"sbatch"}) > 0 =>
        /\ (sbatch_res.ret = 0 /\ SubmittedIds(sbatch_res.outs) # {}) =>
               job_id \in SubmittedIds(sbatch_res.outs)
        /\ SubmittedIds(sbatch_res.outs) = {} =>
               /\ pc = "done"
               /\ ended_at = "launch_job"
               /\ exc = "RuntimeError"
               /\ job_id = Unbound

(* C12: once squeue has run, if it exited non-zero or printed no node name *)
(* the program has ended in get_node with a RuntimeError, and neither the  *)
(* tunnel was spawned nor the browser opened.                              *)
C12_NodeFailureStops ==
    (Count({"squeue"}) > 0 /\ (squeue_res.ret # 0 \/ squeue_res.outs = <<>>)) =>
        /\ pc = "done"
        /\ ended_at = "get_node"
        /\ exc = "RuntimeError"
        /\ Count({"ssh -N -L", "webbrowser.open"}) = 0

\* the port of a token URL: between its last colon and the slash after it
UrlPort(u) ==
    Bind(Max({i \in 1..Len(u) : u[i] = ":"}), LAMBDA colon :
         Slice(u, colon + 1, Min({i \in (colon + 1)..Len(u) : u[i] = "/"}) - 1))

\* the token of a token URL: what follows its last "="
UrlToken(u) == Slice(u, Max({i \in 1..Len(u) : u[i] = "="}) + 1, Len(u))

(* C13: when the tunnel was spawned, squeue had run once and succeeded and *)
(* the forwarding given to ssh is "8080:" followed by the node name squeue *)
(* printed, ":" and the port of the URL found; when the browser was        *)
(* opened, its address is http://127.0.0.1:8080/?token= followed by the    *)
(* token of that URL.                                                      *)
C13_TunnelTarget ==
    /\ Count({"ssh -N -L"}) > 0 =>
           /\ Count({"squeue"}) = 1
           /\ squeue_res.ret = 0
           /\ LastArgs("ssh -N -L")[2] =
                  <<"8", "0", "8", "0", ":">> \o squeue_res.outs \o <<":">> \o UrlPort(url)
    /\ Count({"webbrowser.open"}) > 0 =>
           LastArgs("webbrowser.open")[1] =
               <<"h", "t", "t", "p", ":", "/", "/", "1", "2", "7", ".", "0", ".", "0", ".", "1",
                 ":", "8", "0", "8", "0", "/", "?", "t", "o", "k", "e", "n", "=">>
                   \o UrlToken(url)

\* the tunnel to node05 and the browser, for a URL of another address
C13_Witness ==
    /\ Count({"webbrowser.open"}) > 0
    /\ squeue_res.outs = <<"n", "o", "d", "e", "0", "5">>
    /\ ip # MatchUrl(url).ip
    /\ LastArgs("ssh -N -L")[2] =
           <<"8", "0", "8", "0", ":", "n", "o", "d", "e", "0", "5", ":", "9", "7", "0", "0">>

\* the place of a command in the order of main; the two commands of the loop
\* share theirs
Rank(cmd) ==
    CASE cmd = "scp" -> 1
      [] cmd = "sbatch" -> 2
      [] cmd \in {"cat", "sacct"} -> 3
      [] cmd = "squeue" -> 4
      [] cmd = "ssh -N -L" -> 5
      [] cmd = "webbrowser.open" -> 6
      [] cmd = "scancel" -> 7

(* C14: the commands were executed in the order copy, submit, polling,     *)
(* node query, tunnel, browser, each but the polling ones at most once;    *)
(* the copy came after the script was built, polling after a job id was    *)
(* obtained, the node query after a URL was found and no failure seen, the *)
(* tunnel after a node query that succeeded, the browser after the tunnel  *)
(* was spawned, and the wait on the tunnel after the browser was opened.   *)
C14_FixedOrder ==
    /\ \A i, j \in 1..Len(calls) :
           i < j => /\ Rank(calls[i].cmd) <= Rank(calls[j].cmd)
                    /\ Rank(calls[i].cmd) = Rank(calls[j].cmd) => Rank(calls[i].cmd) = 3
    /\ Len(calls) > 0 => script_path # Unbound /\ calls[1].cmd = "scp"
    /\ Count({"sbatch"}) > 0 => Count({"scp"}) = 1
    /\ Count({"cat", "sacct"}) > 0 => job_id # Unbound /\ Count({"sbatch"}) = 1
    /\ Count({"squeue"}) > 0 =>
           Truthy(url) /\ Count({"cat"}) > 0 /\ failure_report = None
    /\ Count({"ssh -N -L"}) > 0 => Count({"squeue"}) = 1 /\ squeue_res.ret = 0
    /\ Count({"webbrowser.open"}) > 0 => Count({"ssh -N -L"}) = 1 /\ tunnel # "none"
    /\ (pc \in {"wait", "delete_job"} \/ ended_at \in {"wait", "delete_job"}) =>
           Count({"webbrowser.open"}) = 1

\* a whole session of two polls, to the end of the wait
C14_Witness ==
    /\ pc = "done"
    /\ ended_at = "wait"
    /\ count = 2
    /\ [i \in 1..Len(calls) |-> calls[i].cmd] =
           <<"scp", "sbatch", "cat", "sacct", "cat", "sacct", "squeue", "ssh -N -L",
             "webbrowser.open">>

\* the statement main is at, or was at when an interrupt ended it
Where == IF pc = "done" /\ exc = "KeyboardInterrupt" THEN ended_at ELSE pc

\* the commands of the polling loop, in the order executed
PollCalls == SelectSeq(calls, LAMBDA c : c.cmd \in {"cat", "sacct"})

(* C15: the commands of the polling loop alternate, a read of the error    *)
(* log then an accounting query; a read is followed at once by its query   *)
(* and by nothing else; when an iteration is over, also one whose read     *)
(* failed or one that found a URL, as many reads as queries were made as   *)
(* iterations were counted (inside an iteration, one read or one query     *)
(* less), and both are on the error log and the job of this session.       *)
C15_OneCheckEach ==
    /\ \A k \in 1..Len(PollCalls) :
           /\ PollCalls[k].cmd = (IF k % 2 = 1 THEN "cat" ELSE "sacct")
           /\ PollCalls[k].args = (IF k % 2 = 1 THEN <<ErrorFile(job_id)>> ELSE <<job_id>>)
    /\ \A i \in 1..Len(calls) :
           /\ (calls[i].cmd = "cat" /\ i < Len(calls)) => calls[i + 1].cmd = "sacct"
           /\ calls[i].cmd = "sacct" => calls[i - 1].cmd = "cat"
    /\ Count({"cat"}) = (IF Where = "get_jupyter_url" THEN count - 1 ELSE count)
    /\ Count({"sacct"}) =
           (IF Where \in {"get_jupyter_url", "check_jobfailure"} THEN count - 1 ELSE count)

\* the loop left after two iterations: the first found no URL, the second
\* found one, and each had its accounting query
C15_Witness ==
    /\ pc = "match_url"
    /\ Truthy(url)
    /\ count = 2
    /\ Count({"cat"}) = 2
    /\ Count({"sacct"}) = 2

\* the statements of main after the match of line 191
AfterMatchPcs == {"get_node", "open_tunnel", "open_browser", "wait", "delete_job"}

\* the text holds http://<ipv4>:<port>/?token=<word>, the port of any length
WellFormedUrlIn(text) == \E i \in 1..Len(text) : UrlWithPort(text, i, 1, 5).ok

\* the address of a token URL: between "http://" and its last colon
UrlHost(u) == Slice(u, Len(LitHttp) + 1, Max({i \in 1..Len(u) : u[i] = ":"}) - 1)

(* C16: once the loop has ended with a URL and line 191 has matched it,    *)
(* port and token are both assigned and are the port and the token of that *)
(* URL, which is well formed and part of the log last read (and before the *)
(* node query the address is the one of that URL); the program never ends  *)
(* on an unassigned port or token; and after a read of a log that holds    *)
(* "token" but no well-formed URL, no URL is set and the job is not Ready. *)
C16_AllOrNothing ==
    /\ Where \in AfterMatchPcs =>
           /\ port # Unbound
           /\ token # Unbound
           /\ port = UrlPort(url)
           /\ token = UrlToken(url)
           /\ Where = "get_node" => ip = UrlHost(url)
           /\ url = LitHttp \o UrlHost(url) \o <<":">> \o port \o LitTokenQuery \o token
           /\ WellFormedUrlIn(url)
           /\ Contains(cat_res.outs, url)
    /\ exc # "UnboundLocalError"
    /\ (Count({"cat"}) > 0 /\ Contains(cat_res.outs, LitToken)
           /\ ~WellFormedUrlIn(cat_res.outs)) =>
           /\ ~Truthy(url)
           /\ JobState # "Ready"
           /\ Count(AfterReady) = 0

\* the tunnel was spawned for the URL of a log read at the second poll
C16_Witness ==
    /\ Count({"ssh -N -L"}) > 0
    /\ count = 2
    /\ port = <<"9", "7", "0", "0">>
    /\ token = <<"a", "b", "c", "1", "2", "3">>

(* C17: scancel is executed only by the handler of an interrupt of the     *)
(* wait, hence after the loop has ended with a URL; an interrupt inside    *)
(* the loop leads to no scancel; and no read of the error log and no       *)
(* accounting query follows a scancel.                                     *)
C17_NoRace ==
    /\ \A i, j \in 1..Len(calls) :
           (calls[i].cmd = "scancel" /\ i < j) => calls[j].cmd \notin {"cat", "sacct"}
    /\ (pc = "delete_job" \/ Count({"scancel"}) > 0) =>
           /\ Where \notin PollPcs
           /\ Truthy(url)
           /\ interrupts = {"wait"}
           /\ Count({"cat"}) = Count({"sacct"})
    /\ Count({"scancel"}) > 0 => pc = "done" /\ ended_at = "delete_job"
    /\ interrupts \cap PollPcs # {} => pc = "done" /\ Count({"scancel"}) = 0

\* scancel was executed, after two iterations of the loop
C17_Witness ==
    /\ Count({"scancel"}) = 1
    /\ Count({"sacct"}) = 2
    /\ pc = "done"

(* C19: scancel is executed only after an interrupt of the wait; when the  *)
(* wait returned because the tunnel ended by itself, the program has ended *)
(* normally, without an interrupt and without any scancel.                 *)
C19_CancelOnlyOnInterrupt ==
    /\ (pc = "delete_job" \/ Count({"scancel"}) > 0) => "wait" \in interrupts
    /\ (pc = "done" /\ ended_at = "wait") =>
           /\ tunnel = "exited"
           /\ interrupts = {}
           /\ Count({"scancel"}) = 0
           /\ exc = "none"
           /\ status = 0

\* the tunnel ended by itself during the wait, and main returned
C19_Witness ==
    /\ pc = "done"
    /\ ended_at = "wait"
    /\ tunnel = "exited"
    /\ Count({"webbrowser.open"}) = 1

(* C20: the job is Failed exactly when the stdout of the last accounting   *)
(* query holds FAILED, whatever its exit code; after a query that exited   *)
(* non-zero with empty stdout nothing was reported and the program did not *)
(* exit, and when the read of the log failed too the loop goes on: the job *)
(* is still Polling.                                                       *)
C20_FailedOnlyOnSubstring ==
    /\ JobState = "Failed" <=>
           (Count({"sacct"}) > 0 /\ Contains(sacct_res.outs, LitFailed))
    /\ (Count({"sacct"}) > 0 /\ sacct_res.ret # 0 /\ sacct_res.outs = <<>>) =>
           /\ failure_report = None
           /\ exc # "SystemExit"
           /\ JobState # "Failed"
    /\ (pc = "while" /\ count > 0 /\ sacct_res.ret # 0 /\ sacct_res.outs = <<>>
           /\ cat_res.ret # 0 /\ cat_res.outs = <<>>) =>
           /\ JobState = "Polling"
           /\ ~Truthy(url)

\* the second iteration in a row is over with both commands failing
C20_Witness ==
    /\ pc = "while"
    /\ count = 2
    /\ sacct_res = [ret |-> 1, outs |-> <<>>]
    /\ cat_res = [ret |-> 1, outs |-> <<>>]
    /\ JobState = "Polling"

\* the job is still waited for
StillPolling == JobState \in {"Submitted", "Polling"}

(* C18: in the loop run for ever under fairness, while no log read holds a *)
(* token URL, no accounting output holds FAILED and no interrupt comes, the *)
(* job stays in polling and the log is read again and again, without end;  *)
(* and if from some iteration on every log read holds a token URL, or      *)
(* every accounting output holds FAILED, polling is eventually left.       *)
C18_PollsUntilDecided ==
    /\ [](~HasTokenUrl(cat_res.outs) /\ ~Contains(sacct_res.outs, LitFailed)
             /\ interrupts = {}) =>
           []StillPolling /\ []<>(pc = "get_jupyter_url")
    /\ (<>[]HasTokenUrl(cat_res.outs) \/ <>[]Contains(sacct_res.outs, LitFailed)) =>
           <>(~StillPolling)

=============================================================================
